---- MODULE Spec2Model ----
(***************************************************************************)
(* Rate limiting of outbound HTTP requests (src/src/http/rate_limit.rs):   *)
(* Config, RateLimiters::new, the classifier detect_endpoint and the       *)
(* tiered admission check().                                               *)
(*                                                                         *)
(* Time is counted in ticks of 100 ms.  Every time-valued variable is kept *)
(* relative to the present instant: a limiter's theoretical arrival time   *)
(* (governor's GCRA state) is stored as its distance into the future, and  *)
(* an instant that already lies in the past is stored as 0, which the      *)
(* GCRA cannot tell apart from "now" (it only reads max(tat, now) and      *)
(* now < tat - tau).                                                       *)
(***************************************************************************)
EXTENDS Integers, Sequences, FiniteSets, TLC

VARIABLES
    config,      \* the Config the registry was built from
    limiters,    \* RateLimiters: field -> None or the limiter's quota
    tat,         \* per limiter field: NoState (never checked) or tat - now
    pc,          \* per task: "idle", "checking" (at an until_ready().await),
                 \* "sleeping" (suspended in it), "returned", "cancelled"
    req,         \* per task: <<api_type, endpoint>> of the current check() call
    pos,         \* per task: position in check(): index of the next limiter to await
    wait,        \* per task: remaining delay of its until_ready() sleep
    result,      \* per task: "none" or the value check() returned
    took,        \* per task: limiter fields that granted a token to the current call
    calls,       \* number of check() calls started so far, by all tasks
    hist,        \* per limiter field: the age of every token it granted, oldest
                 \* first, an age of Window(f) standing for "Window(f) or more"
    url,         \* the request URL handed to detect_endpoint: host and path
    method,      \* the HTTP method handed to detect_endpoint
    detected,    \* NotDetected, or the pair detect_endpoint returned
    arc,         \* per RateLimiters value: the allocation its Arcs point to, 0
                 \* while the value does not exist
    family,      \* per RateLimiters value: the RateLimiters::new call it was
                 \* built by or cloned from, 0 while the value does not exist
    cells,       \* per allocation and limiter field: NoState or tat - now
    grants       \* per RateLimiters value and limiter field: the number of
                 \* tokens granted through the value

vars == <<config, limiters, tat, pc, req, pos, wait, result, took, calls,
          hist, url, method, detected, arc, family, cells, grants>>

\* The state of a detect_endpoint call, which check() does not touch.
detectVars == <<url, method, detected>>

\* The RateLimiters values made by further RateLimiters::new and clone calls.
cloneVars == <<arc, family, cells, grants>>

\* Option::None, for a quota of Config and for a limiter of RateLimiters.
None == [none |-> TRUE]

\* ---------------------------------------------------------------- bounds
NumTasks == 2
MaxCalls == 3
SmallBurst == 2
NumHandles == 3

Tasks == 1..NumTasks

\* The RateLimiters values a program holds, and the allocations behind them.
Handles == 1..NumHandles
Allocations == 1..NumHandles

\* ------------------------------------------------------------- durations
TenSeconds == 100
TenMinutes == 6000
OneMinute == 600

Max(a, b) == IF a >= b THEN a ELSE b
Min(a, b) == IF a <= b THEN a ELSE b

\* ------------------------------------------------------ governor::Quota
with_period(replenish_1_per) ==
    [max_burst |-> 1, replenish_1_per |-> replenish_1_per]

allow_burst(q, max_burst) ==
    [q EXCEPT !.max_burst = max_burst]

per_minute(max_burst) ==
    [max_burst |-> max_burst, replenish_1_per |-> OneMinute \div max_burst]

\* Mutant: the helper built on the wrong period.
per_ten_seconds_minute(count) == allow_burst(with_period(OneMinute), count)

per_ten_seconds(count) == allow_burst(with_period(TenSeconds), count)

per_ten_minutes(count) == allow_burst(with_period(TenMinutes), count)

MultiWindowQuota(b, s) == [burst |-> b, sustained |-> s]

\* --------------------------------------------------------------- Config
Categories ==
    {"global_limit", "clob_general", "clob_book", "clob_price", "clob_midpoint",
     "clob_post_order", "clob_delete_order", "clob_submit", "clob_user_pnl",
     "gamma_general", "gamma_events", "gamma_markets", "gamma_markets_events",
     "gamma_comments", "gamma_tags", "gamma_search",
     "data_general", "data_trades", "data_positions", "data_closed_positions",
     "bridge_general"}

ConfigDefault ==
    [global_limit          |-> per_ten_seconds(15000),
     clob_general          |-> per_ten_seconds(9000),
     clob_book             |-> per_ten_seconds(1500),
     clob_price            |-> per_ten_seconds(1500),
     clob_midpoint         |-> per_ten_seconds(1500),
     clob_post_order       |-> MultiWindowQuota(per_ten_seconds(3500),
                                                per_ten_minutes(36000)),
     clob_delete_order     |-> MultiWindowQuota(per_ten_seconds(3000),
                                                per_ten_minutes(30000)),
     clob_submit           |-> per_minute(25),
     clob_user_pnl         |-> per_ten_seconds(200),
     gamma_general         |-> per_ten_seconds(4000),
     gamma_events          |-> per_ten_seconds(500),
     gamma_markets         |-> per_ten_seconds(300),
     gamma_markets_events  |-> per_ten_seconds(900),
     gamma_comments        |-> per_ten_seconds(200),
     gamma_tags            |-> per_ten_seconds(200),
     gamma_search          |-> per_ten_seconds(350),
     data_general          |-> per_ten_seconds(1000),
     data_trades           |-> per_ten_seconds(200),
     data_positions        |-> per_ten_seconds(150),
     data_closed_positions |-> per_ten_seconds(150),
     bridge_general        |-> None]

\* Mutant: disabled() leaves the global limit in place.
ConfigDisabledButGlobal ==
    [c \in Categories |->
        IF c = "global_limit" THEN per_ten_seconds(15000) ELSE None]

ConfigDisabled == [c \in Categories |-> None]

\* A caller-supplied configuration: the constructors of Config::default with
\* small counts, every category not listed left unlimited.
ConfigSmall ==
    [ConfigDisabled EXCEPT
        !.global_limit    = per_ten_seconds(SmallBurst + 1),
        !.clob_general    = per_ten_seconds(SmallBurst),
        !.clob_post_order = MultiWindowQuota(per_ten_seconds(SmallBurst),
                                             per_ten_minutes(SmallBurst)),
        !.clob_submit     = per_minute(SmallBurst)]

Configs == {ConfigDefault, ConfigDisabled, ConfigSmall}

\* --------------------------------------------------------- RateLimiters
Fields ==
    {"global", "clob_general", "clob_book", "clob_price", "clob_midpoint",
     "clob_post_order_burst", "clob_post_order_sustained",
     "clob_delete_order_burst", "clob_delete_order_sustained",
     "clob_submit", "clob_user_pnl",
     "gamma_general", "gamma_events", "gamma_markets", "gamma_markets_events",
     "gamma_comments", "gamma_tags", "gamma_search",
     "data_general", "data_trades", "data_positions", "data_closed_positions",
     "bridge_general"}

\* RateLimiter::direct(q): the limiter's immutable part is its quota.
Direct(q) == [quota |-> q]

MapBurst(mq) == IF mq = None THEN None ELSE Direct(mq.burst)
MapSustained(mq) == IF mq = None THEN None ELSE Direct(mq.sustained)
MapQuota(q) == IF q = None THEN None ELSE Direct(q)

\* Mutant: the sustained limiter is built from the burst quota.
RateLimitersNewBurstTwice(cfg) ==
    [f \in Fields |->
        CASE f = "global"                      -> MapQuota(cfg.global_limit)
          [] f = "clob_post_order_burst"       -> MapBurst(cfg.clob_post_order)
          [] f = "clob_post_order_sustained"   -> MapBurst(cfg.clob_post_order)
          [] f = "clob_delete_order_burst"     -> MapBurst(cfg.clob_delete_order)
          [] f = "clob_delete_order_sustained" -> MapBurst(cfg.clob_delete_order)
          [] OTHER                             -> MapQuota(cfg[f])]

RateLimitersNew(cfg) ==
    [f \in Fields |->
        CASE f = "global"                      -> MapQuota(cfg.global_limit)
          [] f = "clob_post_order_burst"       -> MapBurst(cfg.clob_post_order)
          [] f = "clob_post_order_sustained"   -> MapSustained(cfg.clob_post_order)
          [] f = "clob_delete_order_burst"     -> MapBurst(cfg.clob_delete_order)
          [] f = "clob_delete_order_sustained" -> MapSustained(cfg.clob_delete_order)
          [] OTHER                             -> MapQuota(cfg[f])]

\* ------------------------------------------------------ ApiType, Endpoint
ApiTypes == {"Clob", "Gamma", "Data", "Bridge", "Unknown"}

Endpoints ==
    {"ClobBook", "ClobPrice", "ClobMidpoint", "ClobPostOrder", "ClobDeleteOrder",
     "ClobSubmit", "ClobUserPnl", "ClobGeneral",
     "GammaEvents", "GammaMarkets", "GammaMarketsEvents", "GammaComments",
     "GammaTags", "GammaSearch", "GammaGeneral",
     "DataTrades", "DataPositions", "DataClosedPositions", "DataGeneral",
     "BridgeGeneral", "Unknown"}

\* Mutant: the multi-window arms await the sustained limiter first.
EndpointFieldsSustainedFirst(endpoint) ==
    CASE endpoint = "ClobBook"            -> <<"clob_book">>
      [] endpoint = "ClobPrice"           -> <<"clob_price">>
      [] endpoint = "ClobMidpoint"        -> <<"clob_midpoint">>
      [] endpoint = "ClobPostOrder"       -> <<"clob_post_order_sustained",
                                               "clob_post_order_burst">>
      [] endpoint = "ClobDeleteOrder"     -> <<"clob_delete_order_sustained",
                                               "clob_delete_order_burst">>
      [] endpoint = "ClobSubmit"          -> <<"clob_submit">>
      [] endpoint = "ClobUserPnl"         -> <<"clob_user_pnl">>
      [] endpoint = "GammaEvents"         -> <<"gamma_events">>
      [] endpoint = "GammaMarkets"        -> <<"gamma_markets">>
      [] endpoint = "GammaMarketsEvents"  -> <<"gamma_markets_events">>
      [] endpoint = "GammaComments"       -> <<"gamma_comments">>
      [] endpoint = "GammaTags"           -> <<"gamma_tags">>
      [] endpoint = "GammaSearch"         -> <<"gamma_search">>
      [] endpoint = "DataTrades"          -> <<"data_trades">>
      [] endpoint = "DataPositions"       -> <<"data_positions">>
      [] endpoint = "DataClosedPositions" -> <<"data_closed_positions">>
      [] OTHER                            -> << >>

\* Mutant: the multi-window arms await the burst limiter only.
EndpointFieldsBurstOnly(endpoint) ==
    CASE endpoint = "ClobBook"            -> <<"clob_book">>
      [] endpoint = "ClobPrice"           -> <<"clob_price">>
      [] endpoint = "ClobMidpoint"        -> <<"clob_midpoint">>
      [] endpoint = "ClobPostOrder"       -> <<"clob_post_order_burst">>
      [] endpoint = "ClobDeleteOrder"     -> <<"clob_delete_order_burst">>
      [] endpoint = "ClobSubmit"          -> <<"clob_submit">>
      [] endpoint = "ClobUserPnl"         -> <<"clob_user_pnl">>
      [] endpoint = "GammaEvents"         -> <<"gamma_events">>
      [] endpoint = "GammaMarkets"        -> <<"gamma_markets">>
      [] endpoint = "GammaMarketsEvents"  -> <<"gamma_markets_events">>
      [] endpoint = "GammaComments"       -> <<"gamma_comments">>
      [] endpoint = "GammaTags"           -> <<"gamma_tags">>
      [] endpoint = "GammaSearch"         -> <<"gamma_search">>
      [] endpoint = "DataTrades"          -> <<"data_trades">>
      [] endpoint = "DataPositions"       -> <<"data_positions">>
      [] endpoint = "DataClosedPositions" -> <<"data_closed_positions">>
      [] OTHER                            -> << >>

\* The limiter fields the endpoint match of check() awaits, in its order.
EndpointFields(endpoint) ==
    CASE endpoint = "ClobBook"            -> <<"clob_book">>
      [] endpoint = "ClobPrice"           -> <<"clob_price">>
      [] endpoint = "ClobMidpoint"        -> <<"clob_midpoint">>
      [] endpoint = "ClobPostOrder"       -> <<"clob_post_order_burst",
                                               "clob_post_order_sustained">>
      [] endpoint = "ClobDeleteOrder"     -> <<"clob_delete_order_burst",
                                               "clob_delete_order_sustained">>
      [] endpoint = "ClobSubmit"          -> <<"clob_submit">>
      [] endpoint = "ClobUserPnl"         -> <<"clob_user_pnl">>
      [] endpoint = "GammaEvents"         -> <<"gamma_events">>
      [] endpoint = "GammaMarkets"        -> <<"gamma_markets">>
      [] endpoint = "GammaMarketsEvents"  -> <<"gamma_markets_events">>
      [] endpoint = "GammaComments"       -> <<"gamma_comments">>
      [] endpoint = "GammaTags"           -> <<"gamma_tags">>
      [] endpoint = "GammaSearch"         -> <<"gamma_search">>
      [] endpoint = "DataTrades"          -> <<"data_trades">>
      [] endpoint = "DataPositions"       -> <<"data_positions">>
      [] endpoint = "DataClosedPositions" -> <<"data_closed_positions">>
      [] OTHER                            -> << >>

\* Mutant: the Clob arm selects the Gamma limiter.
GeneralFieldSwapped(api_type) ==
    CASE api_type = "Clob"   -> <<"gamma_general">>
      [] api_type = "Gamma"  -> <<"gamma_general">>
      [] api_type = "Data"   -> <<"data_general">>
      [] api_type = "Bridge" -> <<"bridge_general">>
      [] OTHER               -> << >>

\* let general_limiter = match api_type { ... }; Unknown selects &None.
GeneralField(api_type) ==
    CASE api_type = "Clob"   -> <<"clob_general">>
      [] api_type = "Gamma"  -> <<"gamma_general">>
      [] api_type = "Data"   -> <<"data_general">>
      [] api_type = "Bridge" -> <<"bridge_general">>
      [] OTHER               -> << >>

GlobalField == <<"global">>

\* Mutant: the global limiter is awaited first.
CheckSequenceGlobalFirst(api_type, endpoint) ==
    GlobalField \o EndpointFields(endpoint) \o GeneralField(api_type)

\* Mutant: an unclassified request returns before the global limiter.
CheckSequenceUnknownUnlimited(api_type, endpoint) ==
    IF api_type = "Unknown" THEN << >>
    ELSE EndpointFields(endpoint) \o GeneralField(api_type) \o GlobalField

\* The limiter fields check() consults, in program order.
CheckSequence(api_type, endpoint) ==
    EndpointFields(endpoint) \o GeneralField(api_type) \o GlobalField

\* ------------------------------------------------------ detect_endpoint
\* str::starts_with and str::contains
starts_with(str, prefix) ==
    Len(str) >= Len(prefix) /\ SubSeq(str, 1, Len(prefix)) = prefix

contains(str, pat) ==
    \E i \in 1..(Len(str) - Len(pat) + 1) : SubSeq(str, i, i + Len(pat) - 1) = pat

\* url.host_str().unwrap_or("")
host_str_or_empty(u) == IF u.host = None THEN "" ELSE u.host.some

\* let api_type = if host.contains(..) || host.contains("localhost") && .. else ..
DetectApiType(host, path) ==
    IF \/ contains(host, "clob.polymarket.com")
       \/ contains(host, "localhost") /\ starts_with(path, "/clob")
    THEN "Clob"
    ELSE IF \/ contains(host, "gamma-api.polymarket.com")
            \/ contains(host, "localhost") /\ starts_with(path, "/gamma")
    THEN "Gamma"
    ELSE IF \/ contains(host, "data-api.polymarket.com")
            \/ contains(host, "localhost") /\ starts_with(path, "/data")
    THEN "Data"
    ELSE IF \/ contains(host, "bridge.polymarket.com")
            \/ contains(host, "localhost") /\ starts_with(path, "/bridge")
    THEN "Bridge"
    ELSE "Unknown"

\* Mutant: the rewards/user arm is tried first.
ClobEndpointUserPnlFirst(m, p) ==
    IF contains(p, "rewards") /\ contains(p, "user") THEN "ClobUserPnl"
    ELSE IF m = "GET" /\ starts_with(p, "/book") THEN "ClobBook"
    ELSE IF m = "GET" /\ starts_with(p, "/price") /\ ~ starts_with(p, "/prices")
    THEN "ClobPrice"
    ELSE IF m = "GET" /\ starts_with(p, "/midpoint") THEN "ClobMidpoint"
    ELSE IF m = "POST" /\ p \in {"/order", "/orders"} THEN "ClobPostOrder"
    ELSE IF m = "DELETE" /\ starts_with(p, "/order") THEN "ClobDeleteOrder"
    ELSE IF m = "POST" /\ p = "/submit" THEN "ClobSubmit"
    ELSE "ClobGeneral"

\* The CLOB arms of match (api_type, method.as_str(), path), first match first.
ClobEndpoint(m, p) ==
    IF m = "GET" /\ starts_with(p, "/book") THEN "ClobBook"
    ELSE IF m = "GET" /\ starts_with(p, "/price") /\ ~ starts_with(p, "/prices")
    THEN "ClobPrice"
    ELSE IF m = "GET" /\ starts_with(p, "/midpoint") THEN "ClobMidpoint"
    ELSE IF m = "POST" /\ p \in {"/order", "/orders"} THEN "ClobPostOrder"
    ELSE IF m = "DELETE" /\ starts_with(p, "/order") THEN "ClobDeleteOrder"
    ELSE IF m = "POST" /\ p = "/submit" THEN "ClobSubmit"
    ELSE IF contains(p, "rewards") /\ contains(p, "user") THEN "ClobUserPnl"
    ELSE "ClobGeneral"

\* Mutant: the markets arm does not look for /events.
GammaEndpointPlainMarkets(m, p) ==
    IF m = "GET" /\ starts_with(p, "/events") THEN "GammaEvents"
    ELSE IF m = "GET" /\ starts_with(p, "/markets") THEN "GammaMarkets"
    ELSE IF m = "GET" /\ starts_with(p, "/comments") THEN "GammaComments"
    ELSE IF m = "GET" /\ starts_with(p, "/tags") THEN "GammaTags"
    ELSE IF m = "GET" /\ p \in {"/public-search", "/search"} THEN "GammaSearch"
    ELSE "GammaGeneral"

\* The Gamma arms.
GammaEndpoint(m, p) ==
    IF m = "GET" /\ starts_with(p, "/events") THEN "GammaEvents"
    ELSE IF m = "GET" /\ starts_with(p, "/markets")
    THEN (IF contains(p, "/events") THEN "GammaMarketsEvents" ELSE "GammaMarkets")
    ELSE IF m = "GET" /\ starts_with(p, "/comments") THEN "GammaComments"
    ELSE IF m = "GET" /\ starts_with(p, "/tags") THEN "GammaTags"
    ELSE IF m = "GET" /\ p \in {"/public-search", "/search"} THEN "GammaSearch"
    ELSE "GammaGeneral"

\* Mutant: the catch-all Data arm is missing, the final arm takes its place.
DataEndpointNoCatchAll(m, p) ==
    IF m = "GET" /\ p = "/trades" THEN "DataTrades"
    ELSE IF m = "GET" /\ p = "/positions" THEN "DataPositions"
    ELSE IF m = "GET" /\ p = "/closed-positions" THEN "DataClosedPositions"
    ELSE "Unknown"

\* The Data arms.
DataEndpoint(m, p) ==
    IF m = "GET" /\ p = "/trades" THEN "DataTrades"
    ELSE IF m = "GET" /\ p = "/positions" THEN "DataPositions"
    ELSE IF m = "GET" /\ p = "/closed-positions" THEN "DataClosedPositions"
    ELSE "DataGeneral"

\* Mutant: the book arm does not test the API.
DetectEndpointOfBookAnyApi(api_type, m, p) ==
    IF m = "GET" /\ starts_with(p, "/book") THEN "ClobBook"
    ELSE CASE api_type = "Clob"   -> ClobEndpoint(m, p)
           [] api_type = "Gamma"  -> GammaEndpoint(m, p)
           [] api_type = "Data"   -> DataEndpoint(m, p)
           [] api_type = "Bridge" -> "BridgeGeneral"
           [] OTHER               -> "Unknown"

\* let endpoint = match (api_type, method.as_str(), path) { .. }
DetectEndpointOf(api_type, m, p) ==
    CASE api_type = "Clob"   -> ClobEndpoint(m, p)
      [] api_type = "Gamma"  -> GammaEndpoint(m, p)
      [] api_type = "Data"   -> DataEndpoint(m, p)
      [] api_type = "Bridge" -> "BridgeGeneral"
      [] OTHER               -> "Unknown"

\* Mutant: the endpoint rules of a local host see the path without its prefix.
detect_endpoint_strip_prefix(u, m) ==
    LET host == host_str_or_empty(u)
        path == u.path
        api_type == DetectApiType(host, path)
        prefix == CASE api_type = "Clob" -> "/clob"
                    [] api_type = "Gamma" -> "/gamma"
                    [] api_type = "Data" -> "/data"
                    [] OTHER -> "/bridge"
        rest == IF contains(host, "localhost") /\ starts_with(path, prefix)
                THEN SubSeq(path, Len(prefix) + 1, Len(path)) ELSE path
    IN <<api_type, DetectEndpointOf(api_type, m, rest)>>

detect_endpoint(u, m) ==
    LET host == host_str_or_empty(u)
        path == u.path
        api_type == DetectApiType(host, path)
    IN <<api_type, DetectEndpointOf(api_type, m, path)>>

\* ------------------------------------------------------- governor::Gcra
NoState == -1

\* Mutant: a burst tolerance of one cell too many.
GcraTauOneMore(q) == q.replenish_1_per * (q.max_burst + 1)

\* Gcra::new(quota)
GcraT(q) == q.replenish_1_per
GcraTau(q) == q.replenish_1_per * q.max_burst

\* Gcra::starting_state, with t0 the present instant
StartingState(q) == GcraT(q)

\* The tat test_and_update reads from the limiter's state.
ReadTat(q, state) == IF state = NoState THEN StartingState(q) ELSE state

\* earliest_time - t0 = tat.saturating_sub(tau) - t0, never before t0 here
EarliestIn(q, state) == Max(ReadTat(q, state) - GcraTau(q), 0)

\* test_and_update: the cell conforms iff !(t0 < earliest_time)
Conforms(q, state) == ~ (0 < EarliestIn(q, state))

\* the state a conforming cell stores: max(tat, t0) + t
NextTat(q, state) == Max(ReadTat(q, state), 0) + GcraT(q)

\* ------------------------------------------------------------ check()
\* The (api_type, endpoint) arguments the callers pass to check().
Requests ==
    {<<"Clob", "ClobPostOrder">>, <<"Clob", "ClobSubmit">>,
     <<"Bridge", "BridgeGeneral">>, <<"Unknown", "Unknown">>}

\* The value of req before a task's first call of check().
NoRequest == <<"Unknown", "Unknown">>

Chain(t) == CheckSequence(req[t][1], req[t][2])

\* The limiter field task t is at, once it is inside check().
FieldAt(t) == Chain(t)[pos[t]]

AtLimiter(t) == pos[t] <= Len(Chain(t))

\* Mutant: a sleeping task is never polled again.
PollingNoWake(t) == AtLimiter(t) /\ pc[t] = "checking"

\* Mutant: a lock is held across the await, so nobody polls while a task sleeps.
PollingExclusive(t) ==
    /\ AtLimiter(t)
    /\ \/ pc[t] = "checking"
       \/ pc[t] = "sleeping" /\ wait[t] = 0
    /\ \A u \in Tasks \ {t} : pc[u] # "sleeping"

\* The task is about to poll until_ready() of the limiter it is at: either it
\* has just arrived there, or the Delay of its last refusal has expired.
Polling(t) ==
    /\ AtLimiter(t)
    /\ \/ pc[t] = "checking"
       \/ pc[t] = "sleeping" /\ wait[t] = 0

\* Documented period of the category a limiter field belongs to.
Window(f) ==
    CASE f \in {"clob_post_order_sustained", "clob_delete_order_sustained"}
              -> TenMinutes
      [] f = "clob_submit" -> OneMinute
      [] OTHER -> TenSeconds

\* No URL has been classified: the Url and Method of a client not yet given
\* a request.
NotDetected == <<"Unknown", "NotDetected">>
NoUrl == [host |-> None, path |-> "/"]

\* Nothing has called check() or detect_endpoint yet.
Fresh ==
    /\ tat = [f \in Fields |-> NoState]
    /\ pc = [t \in Tasks |-> "idle"]
    /\ req = [t \in Tasks |-> NoRequest]
    /\ pos = [t \in Tasks |-> 1]
    /\ wait = [t \in Tasks |-> 0]
    /\ result = [t \in Tasks |-> "none"]
    /\ took = [t \in Tasks |-> << >>]
    /\ calls = 0
    /\ hist = [f \in Fields |-> << >>]
    /\ detected = NotDetected
    /\ arc = [h \in Handles |-> 0]
    /\ family = [h \in Handles |-> 0]
    /\ cells = [i \in Allocations |-> [f \in Fields |-> NoState]]
    /\ grants = [h \in Handles |-> [f \in Fields |-> 0]]

Init ==
    /\ config \in Configs
    /\ limiters = RateLimitersNew(config)
    /\ url = NoUrl
    /\ method = "GET"
    /\ Fresh

\* The position check() reaches from position i without an await: every
\* "if let Some(limiter)" that finds None is passed over.
RECURSIVE SkipAbsent(_, _)
SkipAbsent(chain, i) ==
    IF i > Len(chain) THEN i
    ELSE IF limiters[chain[i]] = None THEN SkipAbsent(chain, i + 1)
    ELSE i

\* Past the last limiter check() returns Ok(()).
PcAt(chain, i) == IF i > Len(chain) THEN "returned" ELSE "checking"
ResultAt(chain, i) == IF i > Len(chain) THEN "Ok" ELSE "none"

\* The number of check() calls explored.  No limiter of Config::default() can
\* refuse within MaxCalls calls (its smallest burst is 25), so one call less is
\* explored under it.
CallBudget == IF config = ConfigDefault THEN MaxCalls - 1 ELSE MaxCalls

\* A caller invokes check(limiters, api_type, endpoint), which runs up to its
\* first until_ready().await, or to its end when no limiter applies.
StartCheck(t, r) ==
    /\ pc[t] \in {"idle", "returned", "cancelled"}
    /\ calls < CallBudget
    /\ LET chain == CheckSequence(r[1], r[2])
           p == SkipAbsent(chain, 1)
       IN /\ pos' = [pos EXCEPT ![t] = p]
          /\ pc' = [pc EXCEPT ![t] = PcAt(chain, p)]
          /\ result' = [result EXCEPT ![t] = ResultAt(chain, p)]
    /\ req' = [req EXCEPT ![t] = r]
    /\ wait' = [wait EXCEPT ![t] = 0]
    /\ took' = [took EXCEPT ![t] = << >>]
    /\ calls' = calls + 1
    /\ UNCHANGED <<config, limiters, tat, hist>>
    /\ UNCHANGED detectVars
    /\ UNCHANGED cloneVars

\* Mutant: a grant replaces the limiter by one with a token less of burst.
AcquireRebuilds(t) ==
    /\ Polling(t)
    /\ LET f == FieldAt(t)
           q == limiters[f].quota
           p == SkipAbsent(Chain(t), pos[t] + 1)
       IN /\ Conforms(q, tat[f])
          /\ tat' = [tat EXCEPT ![f] = NextTat(q, tat[f])]
          /\ limiters' = [limiters EXCEPT
                             ![f] = Direct(allow_burst(q, Max(q.max_burst - 1, 1)))]
          /\ took' = [took EXCEPT ![t] = Append(@, f)]
          /\ hist' = [hist EXCEPT ![f] = Append(@, 0)]
          /\ pos' = [pos EXCEPT ![t] = p]
          /\ pc' = [pc EXCEPT ![t] = PcAt(Chain(t), p)]
          /\ result' = [result EXCEPT ![t] = ResultAt(Chain(t), p)]
    /\ UNCHANGED <<config, req, wait, calls>>
    /\ UNCHANGED detectVars
    /\ UNCHANGED cloneVars

\* limiter.until_ready().await: the limiter's check() admits the cell, and
\* check() runs on to its next until_ready().await or to its end.
Acquire(t) ==
    /\ Polling(t)
    /\ LET f == FieldAt(t)
           q == limiters[f].quota
           p == SkipAbsent(Chain(t), pos[t] + 1)
       IN /\ Conforms(q, tat[f])
          /\ tat' = [tat EXCEPT ![f] = NextTat(q, tat[f])]
          /\ took' = [took EXCEPT ![t] = Append(@, f)]
          /\ hist' = [hist EXCEPT ![f] = Append(@, 0)]
          /\ pos' = [pos EXCEPT ![t] = p]
          /\ pc' = [pc EXCEPT ![t] = PcAt(Chain(t), p)]
          /\ result' = [result EXCEPT ![t] = ResultAt(Chain(t), p)]
    /\ UNCHANGED <<config, limiters, req, wait, calls>>
    /\ UNCHANGED detectVars
    /\ UNCHANGED cloneVars

\* Mutant: fail fast, the refusal is returned to the caller.
SuspendFailFast(t) ==
    /\ Polling(t)
    /\ ~ Conforms(limiters[FieldAt(t)].quota, tat[FieldAt(t)])
    /\ pc' = [pc EXCEPT ![t] = "returned"]
    /\ result' = [result EXCEPT ![t] = "Denied"]
    /\ UNCHANGED <<config, limiters, tat, req, pos, wait, took, calls, hist>>
    /\ UNCHANGED detectVars
    /\ UNCHANGED cloneVars

\* limiter.until_ready().await: the limiter refuses the cell, and the task
\* sleeps for the refusal's wait_time_from(now).
Suspend(t) ==
    /\ Polling(t)
    /\ LET f == FieldAt(t)
           q == limiters[f].quota
       IN /\ ~ Conforms(q, tat[f])
          /\ wait' = [wait EXCEPT ![t] = EarliestIn(q, tat[f])]
    /\ pc' = [pc EXCEPT ![t] = "sleeping"]
    /\ UNCHANGED <<config, limiters, tat, req, pos, result, took, calls, hist>>
    /\ UNCHANGED detectVars
    /\ UNCHANGED cloneVars

\* Mutant: a cancelled call hands its tokens back.
CancelRollback(t) ==
    /\ pc[t] = "sleeping"
    /\ pc' = [pc EXCEPT ![t] = "cancelled"]
    /\ wait' = [wait EXCEPT ![t] = 0]
    /\ tat' = [f \in Fields |->
                 IF f \in {took[t][i] : i \in 1..Len(took[t])}
                 THEN Max(tat[f] - GcraT(limiters[f].quota), 0) ELSE tat[f]]
    /\ hist' = [f \in Fields |->
                 IF f \in {took[t][i] : i \in 1..Len(took[t])}
                 THEN SubSeq(hist[f], 1, Len(hist[f]) - 1) ELSE hist[f]]
    /\ UNCHANGED <<config, limiters, req, pos, result, took, calls>>
    /\ UNCHANGED detectVars
    /\ UNCHANGED cloneVars

\* The caller drops the future of check() while it is suspended.
Cancel(t) ==
    /\ pc[t] = "sleeping"
    /\ pc' = [pc EXCEPT ![t] = "cancelled"]
    /\ wait' = [wait EXCEPT ![t] = 0]
    /\ UNCHANGED <<config, limiters, tat, req, pos, result, took, calls,
                   hist>>
    /\ UNCHANGED detectVars
    /\ UNCHANGED cloneVars

\* The ages of a limiter's grants once d more ticks have passed.
Aged(ages, d, w) == [i \in 1..Len(ages) |-> Min(ages[i] + d, w)]

\* The clock (DefaultClock, and the timers of the sleeping tasks) moves on by d.
Advance(d) ==
    /\ d > 0
    /\ tat' = [f \in Fields |->
                 IF tat[f] = NoState THEN NoState ELSE Max(tat[f] - d, 0)]
    /\ wait' = [t \in Tasks |-> Max(wait[t] - d, 0)]
    /\ hist' = [f \in Fields |-> Aged(hist[f], d, Window(f))]
    /\ UNCHANGED <<config, limiters, pc, req, pos, result, took, calls>>
    /\ UNCHANGED detectVars
    /\ UNCHANGED cloneVars

\* Time until every limiter has its whole burst back.
AllFull ==
    CHOOSE m \in {tat[f] : f \in Fields} \cup {0} :
        \A f \in Fields : tat[f] <= m

\* The delays the clock moves by: up to the wake-up of a sleeping task, or
\* until every limiter is full again.
Delays == {wait[t] : t \in Tasks} \cup {AllFull}

Next ==
    \/ \E t \in Tasks, r \in Requests : StartCheck(t, r)
    \/ \E t \in Tasks : Acquire(t)
    \/ \E t \in Tasks : Suspend(t)
    \/ \E t \in Tasks : Cancel(t)
    \/ \E d \in Delays : Advance(d)

Spec == Init /\ [][Next]_vars

\* The runtime polls every task that is ready (newly arrived at an await, or
\* woken by its timer), and the clock does not stop.
Fairness ==
    /\ \A t \in Tasks : WF_vars(Acquire(t) \/ Suspend(t))
    /\ WF_vars(\E d \in Delays : Advance(d))

\* Callers contending on the limiters of one endpoint, of its API and on the
\* global limiter, under a configuration whose limiters can be exhausted.
ContendingRequests == {<<"Clob", "ClobPostOrder">>}

ContendInit == Init /\ config = ConfigSmall

ContendNext ==
    \/ \E t \in Tasks, r \in ContendingRequests : StartCheck(t, r)
    \/ \E t \in Tasks : Acquire(t)
    \/ \E t \in Tasks : Suspend(t)
    \/ \E t \in Tasks : Cancel(t)
    \/ \E d \in Delays : Advance(d)

FairSpec == ContendInit /\ [][ContendNext]_vars /\ Fairness

\* Callers of the two multi-window endpoints, spreading their requests over
\* time: the clock also moves until the burst limiters are full again.
ConfigMultiWindow ==
    [ConfigDisabled EXCEPT
        !.clob_post_order   = MultiWindowQuota(per_ten_seconds(SmallBurst),
                                               per_ten_minutes(SmallBurst)),
        !.clob_delete_order = MultiWindowQuota(per_ten_seconds(SmallBurst),
                                               per_ten_minutes(SmallBurst))]

BurstFields == {"clob_post_order_burst", "clob_delete_order_burst"}

BurstFull ==
    CHOOSE m \in {tat[f] : f \in BurstFields} \cup {0} :
        \A f \in BurstFields : tat[f] <= m

MultiWindowRequests == {<<"Clob", "ClobPostOrder">>, <<"Clob", "ClobDeleteOrder">>}

MultiWindowInit ==
    /\ config = ConfigMultiWindow
    /\ limiters = RateLimitersNew(config)
    /\ url = NoUrl
    /\ method = "GET"
    /\ Fresh

MultiWindowNext ==
    \/ \E t \in Tasks, r \in MultiWindowRequests : StartCheck(t, r)
    \/ \E t \in Tasks : Acquire(t)
    \/ \E t \in Tasks : Suspend(t)
    \/ \E t \in Tasks : Cancel(t)
    \/ \E d \in Delays \cup {BurstFull} : Advance(d)

MultiWindowSpec == MultiWindowInit /\ [][MultiWindowNext]_vars

\* The HTTP layer classifying requests: the URLs and methods it is given.
Hosts ==
    {"clob.polymarket.com", "gamma-api.polymarket.com", "data-api.polymarket.com",
     "bridge.polymarket.com", "localhost", "127.0.0.1", "polymarket.com",
     "example.com", "clob.polymarket.com.example.com",
     "staging-gamma-api.polymarket.com", "localhost.example.com"}

PathPrefixes == {"", "/clob", "/gamma", "/data", "/bridge"}

PathStems ==
    {"/", "/book", "/price", "/prices", "/midpoint", "/order", "/orders",
     "/submit", "/rewards/user", "/user", "/events", "/markets", "/comments",
     "/tags", "/search", "/public-search", "/trades", "/positions",
     "/closed-positions", "/other"}

PathSuffixes == {"", "s", "/123", "/123/events", "/rewards/user"}

Paths == {a \o b \o c : a \in PathPrefixes, b \in PathStems, c \in PathSuffixes}

Urls == [host : {None} \cup {[some |-> h] : h \in Hosts}, path : Paths]

Methods == {"GET", "POST", "DELETE", "PUT"}

DetectInit ==
    /\ config = ConfigDefault
    /\ limiters = RateLimitersNew(config)
    /\ url \in Urls
    /\ method \in Methods
    /\ Fresh

\* The HTTP layer calls detect_endpoint(&url, &method).
DetectEndpoint ==
    /\ detected = NotDetected
    /\ detected' = detect_endpoint(url, method)
    /\ UNCHANGED <<config, limiters, tat, pc, req, pos, wait, result, took,
                   calls, hist, url, method>>
    /\ UNCHANGED cloneVars

DetectNext == DetectEndpoint

DetectSpec == DetectInit /\ [][DetectNext]_vars

\* The HTTP layer admitting the request it classified: check() is handed the
\* pair detect_endpoint returned, under the default limits.
ClassifiedPaths ==
    {b \o c : b \in PathStems, c \in {"", "/123/events"}}
        \cup {a \o "/book" : a \in PathPrefixes}

ClassifiedUrls == {u \in Urls : u.path \in ClassifiedPaths}

ClassifiedInit ==
    /\ config = ConfigDefault
    /\ limiters = RateLimitersNew(config)
    /\ url \in ClassifiedUrls
    /\ method \in Methods
    /\ Fresh

ClassifiedNext ==
    \/ DetectEndpoint
    \/ \E t \in Tasks : detected # NotDetected /\ StartCheck(t, detected)
    \/ \E t \in Tasks : Acquire(t)

ClassifiedSpec == ClassifiedInit /\ [][ClassifiedNext]_vars

\* A program making several RateLimiters values from one Config, by
\* RateLimiters::new and by clone(), and awaiting limiters through them.
UsedAllocations == {arc[h] : h \in Handles} \ {0}

\* Arc::new: an allocation no value points to yet.
NewAllocation ==
    CHOOSE i \in Allocations \ UsedAllocations :
        \A j \in Allocations \ UsedAllocations : i <= j

\* RateLimiters::new(&config): every limiter is a new Arc::new(RateLimiter::direct(q)).
RegistryNew(h) ==
    /\ arc[h] = 0
    /\ LET i == NewAllocation
       IN /\ arc' = [arc EXCEPT ![h] = i]
          /\ family' = [family EXCEPT ![h] = i]
          /\ cells' = [cells EXCEPT ![i] = [f \in Fields |-> NoState]]
    /\ UNCHANGED <<config, limiters, tat, pc, req, pos, wait, result, took,
                   calls, hist, grants>>
    /\ UNCHANGED detectVars

\* Mutant: clone() copies the limiters with their state.
RegistryCloneDeep(h, h2) ==
    /\ arc[h] # 0
    /\ arc[h2] = 0
    /\ LET i == NewAllocation
       IN /\ arc' = [arc EXCEPT ![h2] = i]
          /\ cells' = [cells EXCEPT ![i] = cells[arc[h]]]
    /\ family' = [family EXCEPT ![h2] = family[h]]
    /\ UNCHANGED <<config, limiters, tat, pc, req, pos, wait, result, took,
                   calls, hist, grants>>
    /\ UNCHANGED detectVars

\* #[derive(Clone)] on RateLimiters: every Option<Arc<RateLimiter>> is cloned,
\* which copies the pointer.
RegistryClone(h, h2) ==
    /\ arc[h] # 0
    /\ arc[h2] = 0
    /\ arc' = [arc EXCEPT ![h2] = arc[h]]
    /\ family' = [family EXCEPT ![h2] = family[h]]
    /\ UNCHANGED <<config, limiters, tat, pc, req, pos, wait, result, took,
                   calls, hist, cells, grants>>
    /\ UNCHANGED detectVars

\* The limiters awaited through the values: those of check(Clob, ClobSubmit).
CloneFields == {"clob_submit", "clob_general", "global"}

RECURSIVE GrantsUpTo(_, _)
GrantsUpTo(h, f) ==
    IF h = 0 THEN 0 ELSE grants[h][f] + GrantsUpTo(h - 1, f)

TotalGrants ==
    GrantsUpTo(NumHandles, "clob_submit") + GrantsUpTo(NumHandles, "clob_general")
        + GrantsUpTo(NumHandles, "global")

\* limiter.until_ready().await through value h completes: the limiter behind
\* the Arc admits the cell.
LimiterUntilReady(h, f) ==
    /\ arc[h] # 0
    /\ limiters[f] # None
    /\ TotalGrants < MaxCalls
    /\ Conforms(limiters[f].quota, cells[arc[h]][f])
    /\ cells' = [cells EXCEPT
                    ![arc[h]][f] = NextTat(limiters[f].quota, cells[arc[h]][f])]
    /\ grants' = [grants EXCEPT ![h][f] = @ + 1]
    /\ UNCHANGED <<config, limiters, tat, pc, req, pos, wait, result, took,
                   calls, hist, arc, family>>
    /\ UNCHANGED detectVars

CloneInit ==
    /\ config = ConfigSmall
    /\ limiters = RateLimitersNew(config)
    /\ url = NoUrl
    /\ method = "GET"
    /\ Fresh

CloneNext ==
    \/ \E h \in Handles : RegistryNew(h)
    \/ \E h, h2 \in Handles : RegistryClone(h, h2)
    \/ \E h \in Handles, f \in CloneFields : LimiterUntilReady(h, f)

CloneSpec == CloneInit /\ [][CloneNext]_vars

\* ------------------------------------------------------------------------
\* Vocabulary of the properties
\* ------------------------------------------------------------------------
Present(f) == limiters[f] # None
Capacity(f) == limiters[f].quota.max_burst
RefillInterval(f) == limiters[f].quota.replenish_1_per
Granted(f) == Len(hist[f])
InWindow(f) == Cardinality({i \in 1..Len(hist[f]) : hist[f][i] < Window(f)})
InCall(t) == pc[t] \in {"checking", "sleeping"}
Count(seq, x) == Cardinality({i \in 1..Len(seq) : seq[i] = x})

\* The endpoint-specific limiters of an endpoint category, the API-general
\* limiter of an API, and the tiers in their documented order.
SpecificOf(endpoint) ==
    CASE endpoint = "ClobBook"            -> {"clob_book"}
      [] endpoint = "ClobPrice"           -> {"clob_price"}
      [] endpoint = "ClobMidpoint"        -> {"clob_midpoint"}
      [] endpoint = "ClobPostOrder"       -> {"clob_post_order_burst",
                                              "clob_post_order_sustained"}
      [] endpoint = "ClobDeleteOrder"     -> {"clob_delete_order_burst",
                                              "clob_delete_order_sustained"}
      [] endpoint = "ClobSubmit"          -> {"clob_submit"}
      [] endpoint = "ClobUserPnl"         -> {"clob_user_pnl"}
      [] endpoint = "GammaEvents"         -> {"gamma_events"}
      [] endpoint = "GammaMarkets"        -> {"gamma_markets"}
      [] endpoint = "GammaMarketsEvents"  -> {"gamma_markets_events"}
      [] endpoint = "GammaComments"       -> {"gamma_comments"}
      [] endpoint = "GammaTags"           -> {"gamma_tags"}
      [] endpoint = "GammaSearch"         -> {"gamma_search"}
      [] endpoint = "DataTrades"          -> {"data_trades"}
      [] endpoint = "DataPositions"       -> {"data_positions"}
      [] endpoint = "DataClosedPositions" -> {"data_closed_positions"}
      [] OTHER                            -> {}

GeneralOf(api_type) ==
    CASE api_type = "Clob"   -> {"clob_general"}
      [] api_type = "Gamma"  -> {"gamma_general"}
      [] api_type = "Data"   -> {"data_general"}
      [] api_type = "Bridge" -> {"bridge_general"}
      [] OTHER               -> {}

Applicable(r) == SpecificOf(r[2]) \cup GeneralOf(r[1]) \cup {"global"}

GeneralFields == {"clob_general", "gamma_general", "data_general", "bridge_general"}

Tier(f) ==
    IF f = "global" THEN 3 ELSE IF f \in GeneralFields THEN 2 ELSE 1

\* The limiters that owe the call of task t a token before it may reach f.
Before(t, f) == {g \in Applicable(req[t]) : Present(g) /\ Tier(g) < Tier(f)}

TookSet(t) == {took[t][i] : i \in 1..Len(took[t])}

\* Every pair of arguments check() accepts; what check() does with a pair
\* depends on nothing a call changes, so the properties quantifying over all
\* pairs are evaluated on the registry as built (calls = 0).
AllRequests == ApiTypes \X Endpoints

SeqSet(seq) == {seq[i] : i \in 1..Len(seq)}

\* A sequence of limiter fields in the documented order: tiers ascending, no
\* field twice, a burst limiter before its sustained limiter.
InTierOrder(seq) ==
    \A i, j \in 1..Len(seq) :
        i < j => /\ Tier(seq[i]) <= Tier(seq[j])
                 /\ seq[i] # seq[j]
                 /\ ~ (seq[i] \in {"clob_post_order_sustained",
                                   "clob_delete_order_sustained"}
                       /\ Tier(seq[j]) = 1)

\* ------------------------------------------------------------------------
\* C1: for every limiter, built from a quota of capacity C and period P, the
\* number of tokens it granted during the trailing window of length P is at
\* most C, in every reachable state.
C1_WindowBound ==
    \A f \in Fields : Present(f) => InWindow(f) <= Capacity(f)

\* C2: from a freshly built registry, none of the first C requests that pass
\* through a limiter of capacity C suspends; while less than one refill
\* interval has passed since the first of them the limiter refuses the
\* (C+1)th, which therefore completes no earlier than one refill interval
\* after the first.
C2_BurstThenWait ==
    \A f \in Fields : Present(f) =>
        /\ \A t \in Tasks :
              (pc[t] = "sleeping" /\ FieldAt(t) = f) => Granted(f) >= Capacity(f)
        /\ (Granted(f) = Capacity(f) /\ hist[f][1] < RefillInterval(f))
              => ~ Conforms(limiters[f].quota, tat[f])
        /\ Granted(f) > Capacity(f) => hist[f][1] >= RefillInterval(f)

\* A limiter has granted its (C+1)th token, one refill interval after the first.
C2_Witness ==
    \E f \in Fields :
        /\ Present(f)
        /\ Granted(f) = Capacity(f) + 1
        /\ hist[f][1] >= RefillInterval(f)
        /\ hist[f][Granted(f)] = 0

\* C3: every quota of the default configuration, of capacity C and period P,
\* replenishes one token every P/C, so that C tokens are granted per P.
C3_RefillRate ==
    config = ConfigDefault =>
        \A f \in Fields :
            Present(f) => RefillInterval(f) * Capacity(f) = Window(f)

\* C4: check() awaits its limiters in the order endpoint-specific, API-general,
\* global (burst before sustained): the tokens a call holds are in that order,
\* it holds one from every earlier present tier before it takes or awaits one
\* of a later tier, and it never awaits (or sleeps on) an absent limiter.
C4_TierOrder ==
    /\ calls = 0 => \A r \in AllRequests : InTierOrder(CheckSequence(r[1], r[2]))
    /\ \A t \in Tasks :
        /\ InTierOrder(took[t])
        /\ \A i \in 1..Len(took[t]) : Before(t, took[t][i]) \subseteq TookSet(t)
        /\ InCall(t) =>
              /\ Present(FieldAt(t))
              /\ FieldAt(t) \in Applicable(req[t])
              /\ Before(t, FieldAt(t)) \subseteq TookSet(t)

\* A call on the multi-window endpoint has passed all four of its limiters.
C4_Witness ==
    \E t \in Tasks :
        /\ pc[t] = "returned"
        /\ took[t] = <<"clob_post_order_burst", "clob_post_order_sustained",
                       "clob_general", "global">>

\* C5: the limiters check() consults for an (api_type, endpoint) are exactly
\* the applicable ones, and a call that has returned took exactly one token
\* from each present applicable limiter and none from any other limiter.
C5_OneTokenEach ==
    /\ calls = 0 =>
          \A r \in AllRequests : SeqSet(CheckSequence(r[1], r[2])) = Applicable(r)
    /\ \A t \in Tasks : pc[t] = "returned" =>
          \A f \in Fields :
              Count(took[t], f) =
                  IF f \in Applicable(req[t]) /\ Present(f) THEN 1 ELSE 0

\* A returned call that took a token from an endpoint limiter, the API-general
\* limiter and the global limiter, with other limiters present and untouched.
C5_Witness ==
    \E t \in Tasks :
        /\ pc[t] = "returned"
        /\ req[t] = <<"Clob", "ClobSubmit">>
        /\ TookSet(t) = {"clob_submit", "clob_general", "global"}
        /\ Present("clob_post_order_burst")

\* C6: the only result check() returns is Ok(()); a call that has not returned
\* has no result, and an exhausted limiter makes the call wait.
C6_NeverDenied ==
    \A t \in Tasks :
        /\ result[t] \in {"none", "Ok"}
        /\ pc[t] = "returned" <=> result[t] = "Ok"

\* A call has returned Ok(()) through a limiter that had refused a cell.
C6_Witness ==
    \E t \in Tasks :
        /\ pc[t] = "returned"
        /\ result[t] = "Ok"
        /\ \E f \in TookSet(t) : Granted(f) > Capacity(f)

C8_Case(a, b) ==
    /\ a # b
    /\ pc[a] = "sleeping" /\ wait[a] > 0
    /\ pc[b] = "checking"
    /\ FieldAt(b) # FieldAt(a)
    /\ Conforms(limiters[FieldAt(b)].quota, tat[FieldAt(b)])

C9_Disabled ==
    config = ConfigDisabled =>
        /\ \A f \in Fields : limiters[f] = None
        /\ calls = 0 => \A r \in AllRequests :
              SkipAbsent(CheckSequence(r[1], r[2]), 1) > Len(CheckSequence(r[1], r[2]))
        /\ \A t \in Tasks : pc[t] \in {"idle", "returned"}

\* Under Config::disabled() every explored call was made and has returned.
C9_Witness ==
    /\ config = ConfigDisabled
    /\ calls = MaxCalls
    /\ \A t \in Tasks : pc[t] = "returned"

\* The documented default table: capacity and period of every limiter.
DocCapacity(f) ==
    CASE f = "global" -> 15000
      [] f = "clob_general" -> 9000
      [] f \in {"clob_book", "clob_price", "clob_midpoint"} -> 1500
      [] f = "clob_post_order_burst" -> 3500
      [] f = "clob_post_order_sustained" -> 36000
      [] f = "clob_delete_order_burst" -> 3000
      [] f = "clob_delete_order_sustained" -> 30000
      [] f = "clob_submit" -> 25
      [] f = "clob_user_pnl" -> 200
      [] f = "gamma_general" -> 4000
      [] f = "gamma_events" -> 500
      [] f = "gamma_markets" -> 300
      [] f = "gamma_markets_events" -> 900
      [] f \in {"gamma_comments", "gamma_tags"} -> 200
      [] f = "gamma_search" -> 350
      [] f = "data_general" -> 1000
      [] f = "data_trades" -> 200
      [] f \in {"data_positions", "data_closed_positions"} -> 150
      [] OTHER -> 0

\* The quota the constructors make of a row of the table.
DocQuota(f) ==
    IF f = "clob_submit"
    THEN [max_burst |-> DocCapacity(f),
          replenish_1_per |-> Window(f) \div DocCapacity(f)]
    ELSE [max_burst |-> DocCapacity(f), replenish_1_per |-> Window(f)]

MatchesTable(f) == Present(f) /\ limiters[f].quota = DocQuota(f)

CategoryOf(f) ==
    CASE f = "global" -> "global_limit"
      [] f \in {"clob_post_order_burst", "clob_post_order_sustained"}
              -> "clob_post_order"
      [] f \in {"clob_delete_order_burst", "clob_delete_order_sustained"}
              -> "clob_delete_order"
      [] OTHER -> f

MultiWindowCategories == {"clob_post_order", "clob_delete_order"}

BurstField(c) == IF c = "clob_post_order" THEN "clob_post_order_burst"
                 ELSE "clob_delete_order_burst"
SustainedField(c) == IF c = "clob_post_order" THEN "clob_post_order_sustained"
                     ELSE "clob_delete_order_sustained"

\* The limiter a one-to-one instantiation owes field f under configuration cfg.
Instance(cfg, f) ==
    LET e == cfg[CategoryOf(f)]
    IN IF e = None THEN None
       ELSE IF f = BurstField(CategoryOf(f)) /\ CategoryOf(f) \in MultiWindowCategories
            THEN [quota |-> e.burst]
       ELSE IF f = SustainedField(CategoryOf(f)) /\ CategoryOf(f) \in MultiWindowCategories
            THEN [quota |-> e.sustained]
       ELSE [quota |-> e]

\* The values a caller may put in place of one entry of a Config.
Overrides(c) ==
    IF c \in MultiWindowCategories
    THEN {None, MultiWindowQuota(per_minute(SmallBurst + 1), per_ten_seconds(1))}
    ELSE {None, per_minute(SmallBurst + 1)}

C11_Registry ==
    /\ \A f \in Fields :
          /\ Present(f) <=> config[CategoryOf(f)] # None
          /\ limiters[f] = Instance(config, f)
    /\ \A c \in MultiWindowCategories :
          Present(BurstField(c)) <=> Present(SustainedField(c))
    /\ calls = 0 =>
          \A c \in Categories : \A v \in Overrides(c) :
              LET other == RateLimitersNew([config EXCEPT ![c] = v])
              IN \A f \in Fields :
                    other[f] = IF CategoryOf(f) = c
                               THEN Instance([config EXCEPT ![c] = v], f)
                               ELSE limiters[f]

C11_Step ==
    \A g \in Fields :
        Len(hist'[g]) > Len(hist[g]) =>
            \A f \in Fields \ {g} : tat'[f] = tat[f] /\ hist'[f] = hist[f]

\* C11: RateLimiters::new instantiates one to one: a field holds a limiter
\* iff its category's config entry holds a quota, with that entry's quota; the
\* burst and sustained limiters of a multi-window category are both present
\* or both absent; replacing one entry of the config changes the limiters of
\* that category only; and a token granted by one limiter leaves the token
\* state of every other limiter, its burst or sustained twin included, as it
\* was.
C11_OneToOne == []C11_Registry /\ [][C11_Step]_vars

\* Both limiters of a multi-window category have granted tokens and hold
\* different token state, while another category has no limiter.
C11_Witness ==
    /\ Present("clob_post_order_burst") /\ Present("clob_post_order_sustained")
    /\ tat["clob_post_order_burst"] # NoState
    /\ tat["clob_post_order_sustained"] # NoState
    /\ tat["clob_post_order_burst"] # tat["clob_post_order_sustained"]
    /\ ~ Present("clob_book")


MultiWindowEndpoints == {"ClobPostOrder", "ClobDeleteOrder"}

BurstOf(endpoint) == IF endpoint = "ClobPostOrder" THEN "clob_post_order_burst"
                     ELSE "clob_delete_order_burst"
SustainedOf(endpoint) == IF endpoint = "ClobPostOrder" THEN "clob_post_order_sustained"
                         ELSE "clob_delete_order_sustained"

Exhausted(f) == Present(f) /\ ~ Conforms(limiters[f].quota, tat[f])

\* C12: a call of check() for ClobPostOrder or ClobDeleteOrder needs a token of
\* both the burst and the sustained limiter: it has not returned unless both
\* granted it one, it is at one of the two until the sustained limiter has
\* granted, and at an exhausted sustained limiter it can only suspend, whatever
\* the burst limiter holds.
C12_BothWindows ==
    \A t \in Tasks :
        (req[t][2] \in MultiWindowEndpoints /\ Present(SustainedOf(req[t][2]))) =>
            LET b == BurstOf(req[t][2])
                u == SustainedOf(req[t][2])
            IN /\ pc[t] = "returned" => {b, u} \subseteq TookSet(t)
               /\ (InCall(t) /\ u \notin TookSet(t)) => FieldAt(t) \in {b, u}
               /\ (InCall(t) /\ FieldAt(t) = u) => b \in TookSet(t)
               /\ (Polling(t) /\ FieldAt(t) = u /\ Exhausted(u)) =>
                      ENABLED Suspend(t) /\ ~ ENABLED Acquire(t)
               /\ (pc[t] = "sleeping" /\ FieldAt(t) = u) => u \notin TookSet(t)

\* A call is suspended on the exhausted sustained limiter while the burst
\* limiter, which granted it a token, has another one available.
C12_Witness ==
    \E t \in Tasks :
        /\ req[t][2] \in MultiWindowEndpoints
        /\ pc[t] = "sleeping" /\ wait[t] > 0
        /\ FieldAt(t) = SustainedOf(req[t][2])
        /\ Exhausted(SustainedOf(req[t][2]))
        /\ BurstOf(req[t][2]) \in TookSet(t)
        /\ ~ Exhausted(BurstOf(req[t][2]))

\* The endpoints of an API, its General endpoint, and whether some named rule
\* of the API matches a method and path.
EndpointsOfApi(api_type) ==
    CASE api_type = "Clob" ->
            {"ClobBook", "ClobPrice", "ClobMidpoint", "ClobPostOrder",
             "ClobDeleteOrder", "ClobSubmit", "ClobUserPnl", "ClobGeneral"}
      [] api_type = "Gamma" ->
            {"GammaEvents", "GammaMarkets", "GammaMarketsEvents", "GammaComments",
             "GammaTags", "GammaSearch", "GammaGeneral"}
      [] api_type = "Data" ->
            {"DataTrades", "DataPositions", "DataClosedPositions", "DataGeneral"}
      [] api_type = "Bridge" -> {"BridgeGeneral"}
      [] OTHER -> {"Unknown"}

GeneralEndpoint(api_type) ==
    CASE api_type = "Clob" -> "ClobGeneral"
      [] api_type = "Gamma" -> "GammaGeneral"
      [] api_type = "Data" -> "DataGeneral"
      [] api_type = "Bridge" -> "BridgeGeneral"
      [] OTHER -> "Unknown"

HasPrefixIn(p, prefixes) == \E x \in prefixes : starts_with(p, x)

SomeRuleMatches(api_type, m, p) ==
    CASE api_type = "Clob" ->
            \/ m = "GET" /\ HasPrefixIn(p, {"/book", "/midpoint"})
            \/ m = "GET" /\ starts_with(p, "/price") /\ ~ starts_with(p, "/prices")
            \/ m = "POST" /\ p \in {"/order", "/orders", "/submit"}
            \/ m = "DELETE" /\ starts_with(p, "/order")
            \/ contains(p, "rewards") /\ contains(p, "user")
      [] api_type = "Gamma" ->
            /\ m = "GET"
            /\ \/ HasPrefixIn(p, {"/events", "/markets", "/comments", "/tags"})
               \/ p \in {"/search", "/public-search"}
      [] api_type = "Data" ->
            m = "GET" /\ p \in {"/trades", "/positions", "/closed-positions"}
      [] OTHER -> FALSE

\* C13: detect_endpoint returns, for every URL (one without host included) and
\* method, a pair of an ApiType and an Endpoint of that API; a request of a
\* recognised API that matches none of its rules gets the API's General
\* endpoint, and one of an unrecognised API gets (Unknown, Unknown).
C13_Total ==
    /\ detected # NotDetected =>
          /\ detected \in ApiTypes \X Endpoints
          /\ detected[2] \in EndpointsOfApi(detected[1])
          /\ ~ SomeRuleMatches(detected[1], method, url.path) =>
                 detected[2] = GeneralEndpoint(detected[1])
          /\ SomeRuleMatches(detected[1], method, url.path) =>
                 detected[2] # GeneralEndpoint(detected[1])
          /\ url.host = None => detected = <<"Unknown", "Unknown">>
    /\ detected = NotDetected => ENABLED DetectEndpoint

\* A URL without host has been classified (Unknown, Unknown).
C13_Witness ==
    /\ url.host = None
    /\ url.path = "/clob/book"
    /\ detected = <<"Unknown", "Unknown">>

\* The CLOB rules in their stated order.
ClobRules ==
    <<"ClobBook", "ClobPrice", "ClobMidpoint", "ClobPostOrder", "ClobDeleteOrder",
      "ClobSubmit", "ClobUserPnl">>

ClobRuleMatches(e, m, p) ==
    CASE e = "ClobBook" -> m = "GET" /\ starts_with(p, "/book")
      [] e = "ClobPrice" ->
            m = "GET" /\ starts_with(p, "/price") /\ ~ starts_with(p, "/prices")
      [] e = "ClobMidpoint" -> m = "GET" /\ starts_with(p, "/midpoint")
      [] e = "ClobPostOrder" -> m = "POST" /\ (p = "/order" \/ p = "/orders")
      [] e = "ClobDeleteOrder" -> m = "DELETE" /\ starts_with(p, "/order")
      [] e = "ClobSubmit" -> m = "POST" /\ p = "/submit"
      [] e = "ClobUserPnl" -> contains(p, "rewards") /\ contains(p, "user")

FirstClobMatch(m, p) ==
    LET hits == {i \in 1..Len(ClobRules) : ClobRuleMatches(ClobRules[i], m, p)}
    IN IF hits = {} THEN "ClobGeneral"
       ELSE ClobRules[CHOOSE i \in hits : \A j \in hits : i <= j]

\* C14: a CLOB request is classified by the first of the rules book, price (not
\* prices), midpoint, post order, delete order, submit, rewards/user that
\* matches its method and path, and ClobGeneral when none does.
C14_ClobRules ==
    (detected # NotDetected /\ detected[1] = "Clob") =>
        detected[2] = FirstClobMatch(method, url.path)

\* A CLOB request matching the book rule and the rewards/user rule is ClobBook.
C14_Witness ==
    /\ detected = <<"Clob", "ClobBook">>
    /\ ClobRuleMatches("ClobUserPnl", method, url.path)

\* C15: a Gamma GET request whose path starts with /markets is
\* GammaMarketsEvents when the path contains /events, GammaMarkets otherwise.
C15_MarketsEvents ==
    (/\ detected # NotDetected
     /\ detected[1] = "Gamma"
     /\ method = "GET"
     /\ starts_with(url.path, "/markets")) =>
        detected[2] = IF contains(url.path, "/events") THEN "GammaMarketsEvents"
                      ELSE "GammaMarkets"

\* GET /markets/123/events of the Gamma host is (Gamma, GammaMarketsEvents).
C15_Witness ==
    /\ url = [host |-> [some |-> "gamma-api.polymarket.com"],
              path |-> "/markets/123/events"]
    /\ method = "GET"
    /\ detected = <<"Gamma", "GammaMarketsEvents">>

ProductionHosts ==
    {"clob.polymarket.com", "gamma-api.polymarket.com", "data-api.polymarket.com",
     "bridge.polymarket.com"}

LocalHosts == {"localhost", "127.0.0.1", "localhost.example.com"}

\* C16: a request whose host is none of the four production hostnames, and is
\* not a local host with a /clob, /gamma, /data or /bridge path prefix, is of
\* ApiType Unknown.
C16_ExactHost ==
    (/\ detected # NotDetected
     /\ host_str_or_empty(url) \notin ProductionHosts
     /\ ~ (/\ host_str_or_empty(url) \in LocalHosts
           /\ HasPrefixIn(url.path, {"/clob", "/gamma", "/data", "/bridge"}))) =>
        detected[1] = "Unknown"

SustainedFields == {"clob_post_order_sustained", "clob_delete_order_sustained"}

C17_State ==
    \A t \in Tasks :
        (req[t][2] \in MultiWindowEndpoints /\ Present(BurstOf(req[t][2]))) =>
            LET b == BurstOf(req[t][2])
                u == SustainedOf(req[t][2])
            IN /\ (InCall(t) /\ FieldAt(t) = b) => took[t] = << >>
               /\ u \in TookSet(t) => (Len(took[t]) >= 2 /\ took[t][1] = b /\ took[t][2] = u)

C17_Step ==
    \A u \in SustainedFields :
        Len(hist'[u]) > Len(hist[u]) =>
            \E t \in Tasks :
                /\ InCall(t) /\ FieldAt(t) = u /\ u = SustainedOf(req[t][2])
                /\ BurstOf(req[t][2]) \in TookSet(t)
                /\ took'[t] = Append(took[t], u)

\* C17: a call of check() for ClobPostOrder or ClobDeleteOrder awaits the burst
\* limiter first: while it is at (or suspended on) the burst limiter it holds
\* no token, a sustained token it holds comes right after its burst token, and
\* a sustained limiter grants only to a call that already holds the token of
\* its burst limiter.
C17_BurstFirst == []C17_State /\ [][C17_Step]_vars

\* A call is suspended on the exhausted burst limiter, having taken nothing
\* from the sustained limiter that follows it.
C17_Witness ==
    \E t \in Tasks :
        /\ req[t][2] \in MultiWindowEndpoints
        /\ pc[t] = "sleeping" /\ wait[t] > 0
        /\ FieldAt(t) = BurstOf(req[t][2])
        /\ Present(SustainedOf(req[t][2]))
        /\ SustainedOf(req[t][2]) \notin TookSet(t)

\* The present limiters among the first n steps of a call's sequence.
PresentPrefix(chain, n) == SelectSeq(SubSeq(chain, 1, n), Present)

C18_State ==
    /\ \A t \in Tasks : pc[t] \in {"sleeping", "cancelled"} =>
          /\ took[t] = PresentPrefix(Chain(t), pos[t] - 1)
          /\ \A f \in TookSet(t) : Count(took[t], f) = 1
          /\ \A k \in pos[t]..Len(Chain(t)) : Chain(t)[k] \notin TookSet(t)
    /\ \A f \in Fields :
          Granted(f) >= Cardinality({t \in Tasks : f \in TookSet(t)})

C18_Step ==
    /\ \A t \in Tasks :
          (pc[t] = "sleeping" /\ pc'[t] = "cancelled") =>
              /\ tat' = tat /\ hist' = hist
              /\ took'[t] = took[t] /\ pos'[t] = pos[t] /\ req'[t] = req[t]
    /\ <<pc, pos, calls>>' # <<pc, pos, calls>> =>
          \A f \in Fields : tat'[f] >= tat[f] /\ Len(hist'[f]) >= Len(hist[f])

\* C18: a call of check() cancelled while suspended on the limiter of step k
\* holds exactly one token of every present limiter of the steps before k and
\* none of the limiter of step k or of a later step; cancelling gives no token
\* back, and no step other than the passing of time ever restores a token.
C18_NoRollback == []C18_State /\ [][C18_Step]_vars

\* A call was cancelled while suspended on the API-general limiter, after it
\* took the tokens of both endpoint limiters.
C18_Witness ==
    \E t \in Tasks :
        /\ pc[t] = "cancelled"
        /\ pos[t] = 3
        /\ took[t] = <<"clob_post_order_burst", "clob_post_order_sustained">>
        /\ Granted("clob_post_order_burst") >= 1

\* C19: every call of check() consults the global limiter, last, whatever its
\* (api_type, endpoint), and takes one token of it when it is present; no
\* API-general limiter is consulted for ApiType Unknown; under Config::default()
\* the Bridge general limiter is absent, so that an (Unknown, Unknown) call, and
\* under the default configuration a (Bridge, BridgeGeneral) call, takes a
\* token of the global limiter only.
C19_GlobalAlways ==
    /\ calls = 0 =>
          \A r \in AllRequests :
              LET chain == CheckSequence(r[1], r[2])
              IN /\ Len(chain) >= 1 /\ chain[Len(chain)] = "global"
                 /\ r[1] = "Unknown" => SeqSet(chain) \cap GeneralFields = {}
    /\ config = ConfigDefault => ~ Present("bridge_general")
    /\ \A t \in Tasks : pc[t] = "returned" =>
          /\ Count(took[t], "global") = IF Present("global") THEN 1 ELSE 0
          /\ req[t] = <<"Unknown", "Unknown">> => TookSet(t) \subseteq {"global"}
          /\ (req[t] = <<"Bridge", "BridgeGeneral">> /\ config = ConfigDefault) =>
                 took[t] = <<"global">>

\* Under Config::default() an (Unknown, Unknown) call and a (Bridge,
\* BridgeGeneral) call have returned, each with a token of the global limiter
\* and no other.
C19_Witness ==
    /\ config = ConfigDefault
    /\ \E a, b \in Tasks :
          /\ pc[a] = "returned" /\ req[a] = <<"Unknown", "Unknown">>
          /\ took[a] = <<"global">>
          /\ pc[b] = "returned" /\ req[b] = <<"Bridge", "BridgeGeneral">>
          /\ took[b] = <<"global">>
          /\ Granted("global") = 2

C20_Step ==
    /\ config' = config
    /\ limiters' = limiters
    /\ \A f \in Fields : ~ Present(f) => (tat'[f] = NoState /\ hist'[f] = << >>)

\* C20: whatever calls of check() are made and however they interleave, the
\* registry stays as RateLimiters::new built it: the same fields hold a
\* limiter, each with the same quota; only the token state of present limiters
\* changes.
C20_RegistryFrame ==
    [](limiters = RateLimitersNew(config)) /\ [][C20_Step]_vars

\* All the calls explored were made, limiters granted and refused tokens, and
\* the registry is as built.
C20_Witness ==
    /\ calls = MaxCalls
    /\ limiters = RateLimitersNew(config)
    /\ \E f \in Fields : Present(f) /\ Granted(f) > Capacity(f)
    /\ \E t \in Tasks : pc[t] = "cancelled"

\* A local host whose API is chosen by the path prefix, not by its name.
LocalByPrefix(u) ==
    /\ contains(host_str_or_empty(u), "localhost")
    /\ \A h \in ProductionHosts : ~ contains(host_str_or_empty(u), h)
    /\ HasPrefixIn(u.path, {"/clob", "/gamma", "/data", "/bridge"})

\* C22: for a local host whose API is chosen by path prefix the endpoint rules
\* see the whole path, prefix included: the API is the one of the prefix, a
\* Gamma request is GammaGeneral, a Data request DataGeneral, a Bridge request
\* BridgeGeneral, and a Clob request ClobGeneral, or ClobUserPnl when its path
\* contains rewards and user.
C22_LocalHost ==
    (detected # NotDetected /\ LocalByPrefix(url)) =>
        /\ detected[1] = CASE starts_with(url.path, "/clob") -> "Clob"
                            [] starts_with(url.path, "/gamma") -> "Gamma"
                            [] starts_with(url.path, "/data") -> "Data"
                            [] OTHER -> "Bridge"
        /\ detected[1] = "Clob" =>
              detected[2] = IF contains(url.path, "rewards") /\ contains(url.path, "user")
                            THEN "ClobUserPnl" ELSE "ClobGeneral"
        /\ detected[1] # "Clob" => detected[2] = GeneralEndpoint(detected[1])

\* GET http://localhost/clob/book is (Clob, ClobGeneral), not ClobBook.
C22_Witness ==
    /\ url = [host |-> [some |-> "localhost"], path |-> "/clob/book"]
    /\ method = "GET"
    /\ detected = <<"Clob", "ClobGeneral">>

\* The API a limiter field belongs to; the global limiter belongs to none.
ApiOfField(f) ==
    CASE f = "global" -> "Global"
      [] starts_with(f, "clob_") -> "Clob"
      [] starts_with(f, "gamma_") -> "Gamma"
      [] starts_with(f, "data_") -> "Data"
      [] OTHER -> "Bridge"

\* C21: the pair detect_endpoint returns is consistent, the endpoint being one
\* of the returned ApiType (Unknown with Unknown), and a call of check() on
\* that pair is at, and takes tokens of, limiters of that API and the global
\* limiter only.
C21_Consistent ==
    /\ detected # NotDetected =>
          /\ detected[2] \in EndpointsOfApi(detected[1])
          /\ \A a \in ApiTypes \ {detected[1]} :
                detected[2] \notin EndpointsOfApi(a)
    /\ \A t \in Tasks :
          /\ pc[t] # "idle" => (detected # NotDetected /\ req[t] = detected)
          /\ \A f \in TookSet(t) : ApiOfField(f) \in {req[t][1], "Global"}
          /\ InCall(t) => ApiOfField(FieldAt(t)) \in {req[t][1], "Global"}

\* A classified Gamma request has passed check() with a token of its endpoint
\* limiter, of the Gamma general limiter and of the global limiter.
C21_Witness ==
    /\ detected = <<"Gamma", "GammaMarketsEvents">>
    /\ \E t \in Tasks :
          /\ pc[t] = "returned"
          /\ took[t] = <<"gamma_markets_events", "gamma_general", "global">>

\* The tokens of limiter f granted through the values of family F, counted
\* over the values 1..h.
RECURSIVE FamilyGranted(_, _, _)
FamilyGranted(F, f, h) ==
    IF h = 0 THEN 0
    ELSE (IF family[h] = F THEN grants[h][f] ELSE 0) + FamilyGranted(F, f, h - 1)

\* The token state of a limiter of quota q that has granted n tokens since it
\* was built, no time having passed.
StateAfter(q, n) == IF n = 0 THEN NoState ELSE q.replenish_1_per * (n + 1)

Live(h) == arc[h] # 0

\* C23: the clones of one RateLimiters value share token state, so that what
\* a limiter has granted through all of them together is what its state
\* records and stays within its burst, and a limiter exhausted through one
\* clone is exhausted through every other; values built by separate
\* RateLimiters::new calls share nothing: the state of each records the grants
\* of its own family only.
C23_ClonesShare ==
    /\ \A h1, h2 \in Handles :
          (Live(h1) /\ Live(h2)) => (family[h1] = family[h2] <=> arc[h1] = arc[h2])
    /\ \A h \in Handles : \A f \in CloneFields :
          (Live(h) /\ Present(f)) =>
              LET n == FamilyGranted(family[h], f, NumHandles)
              IN /\ n <= Capacity(f)
                 /\ cells[arc[h]][f] = StateAfter(limiters[f].quota, n)
                 /\ n = Capacity(f) => ~ ENABLED LimiterUntilReady(h, f)

\* Two clones each took one token of a limiter of burst 2, which is exhausted
\* through both, while a value built by another RateLimiters::new call took
\* one token of its own limiter and can take another.
C23_Witness ==
    \E h1, h2, h3 \in Handles :
        /\ h1 # h2 /\ Live(h1) /\ Live(h2) /\ Live(h3)
        /\ family[h1] = family[h2] /\ family[h3] # family[h1]
        /\ grants[h1]["clob_general"] = 1 /\ grants[h2]["clob_general"] = 1
        /\ grants[h3]["clob_general"] = 1
        /\ ~ Conforms(limiters["clob_general"].quota, cells[arc[h1]]["clob_general"])
        /\ ~ Conforms(limiters["clob_general"].quota, cells[arc[h2]]["clob_general"])
        /\ Conforms(limiters["clob_general"].quota, cells[arc[h3]]["clob_general"])

====
